---- MODULE Spec2Model ----
(***************************************************************************)
(* Word alignment (homophones.match_sequence on difflib.SequenceMatcher)  *)
(* and the two mispronunciation classifiers of the label pipeline:        *)
(*   src/src/transcribe/mispronunciation.py                               *)
(*   src/src/airtable_apply_annotations/mispronunciation.py               *)
(* and the segment aligner src/src/transcribe/aligner.py.                  *)
(* Python lists are TLA+ sequences; every index kept in the model is the  *)
(* Python (0-based) index, so list L at Python index i is L[i + 1].       *)
(* Lists stay far below 200 elements, where SequenceMatcher's autojunk    *)
(* heuristic is inactive, and isjunk is None: no element is junk.         *)
(***************************************************************************)
EXTENDS Integers, Sequences, FiniteSets, TLC

\* Longest ground-truth and transcript word lists that are called with.
MaxGT == 3
MaxTsc == 3

\* Longest list of transcript items and longest ground-truth text (in words)
\* that overlapping_segments is called with.
MaxItems == 3
MaxGTWords == 2

\* Longest list that the converter of create_convert is applied to.
MaxConvert == 2

\* Vocabulary: a filler and the members of two families of the English table
\* that share the word "bow" (plain, unrelated words under the table of "id").
Words == {"uh", "beau", "bow", "bough"}

\* HOMOPHONES: of each language, the families that contain a word of the
\* vocabulary (a family without such a word never changes the key of one);
\* no family of "id" contains one.
HOMOPHONES == [en |-> << {"beau", "bow"}, {"bough", "bow"} >>, id |-> << >>]

\* All lists over S of length at most n.
ListsUpTo(S, n) == UNION {[1..k -> S] : k \in 0..n}

\* list(family): a set is enumerated in an order that depends on the string
\* hashes of the process, so any member can come first.
ListOrders(family) ==
  {f \in [1..Cardinality(family) -> family] :
      \A x, y \in DOMAIN f : x # y => f[x] # f[y]}

\* map(list, families) for every enumeration order of every family.
FamilyLists(table) ==
  {t \in [1..Len(table) -> UNION {ListOrders(table[k]) : k \in 1..Len(table)}] :
      \A k \in 1..Len(table) : t[k] \in ListOrders(table[k])}

(***************************************************************************)
(* create_convert                                                          *)
(***************************************************************************)
\* The dict comprehension: families in table order, each alternative mapped
\* to the first enumerated member; a later family overwrites an earlier key.
RECURSIVE build_dict(_, _)
build_dict(fams, d) ==
  IF fams = <<>> THEN d
  ELSE LET f == Head(fams)
           main == f[1]
           alternatives == {f[k] : k \in 2..Len(f)}
       IN build_dict(Tail(fams),
                     [w \in (DOMAIN d) \cup alternatives |->
                        IF w \in alternatives THEN main ELSE d[w]])

\* d.get(w, w)
dict_get(d, w) == IF w \in DOMAIN d THEN d[w] ELSE w

\* create_convert(*families)(L)
create_convert(fams, L) ==
  LET d == build_dict(fams, <<>>)
  IN [k \in 1..Len(L) |-> dict_get(d, L[k])]

(***************************************************************************)
(* difflib.SequenceMatcher(None, a, b), as used by match_sequence          *)
(***************************************************************************)
\* j2len[j] at row i of find_longest_match: the length of the common run
\* that ends at a[i], b[j] and lies inside the window starting at alo, blo.
RECURSIVE j2len(_, _, _, _, _, _)
j2len(a, b, i, j, alo, blo) ==
  IF a[i + 1] # b[j + 1] THEN 0
  ELSE IF i > alo /\ j > blo THEN 1 + j2len(a, b, i - 1, j - 1, alo, blo)
  ELSE 1

\* find_longest_match replacing the best block by one that is as long (>=
\* for > in the comparison with bestsize): among the longest blocks the one
\* that ends last in a and in b wins.
find_longest_match_last_wins(a, b, alo, ahi, blo, bhi) ==
  LET runs == {<<c[1], c[2], j2len(a, b, c[1], c[2], alo, blo)>> :
                  c \in (alo..(ahi - 1)) \X (blo..(bhi - 1))}
      hits == {r \in runs : r[3] > 0}
  IN IF hits = {} THEN <<alo, blo, 0>>
     ELSE LET best == CHOOSE r \in hits :
                         \A e \in hits :
                            \/ e[3] < r[3]
                            \/ /\ e[3] = r[3]
                               /\ (r[1] > e[1] \/ (r[1] = e[1] /\ r[2] >= e[2]))
          IN <<best[1] - best[3] + 1, best[2] - best[3] + 1, best[3]>>

\* find_longest_match(alo, ahi, blo, bhi): rows i ascending, columns j
\* ascending, the best block replaced only by a strictly longer one, so the
\* result is the longest block, earliest in a, then earliest in b. runs holds
\* (i, j, k) for every cell of the window, k the run that ends there.
find_longest_match(a, b, alo, ahi, blo, bhi) ==
  LET runs == {<<c[1], c[2], j2len(a, b, c[1], c[2], alo, blo)>> :
                  c \in (alo..(ahi - 1)) \X (blo..(bhi - 1))}
      hits == {r \in runs : r[3] > 0}
  IN IF hits = {} THEN <<alo, blo, 0>>
     ELSE LET best == CHOOSE r \in hits :
                         \A e \in hits :
                            \/ e[3] < r[3]
                            \/ /\ e[3] = r[3]
                               /\ (r[1] < e[1] \/ (r[1] = e[1] /\ r[2] <= e[2]))
          IN <<best[1] - best[3] + 1, best[2] - best[3] + 1, best[3]>>

\* The queue loop of get_matching_blocks followed by matching_blocks.sort():
\* the block of a window, the blocks of the window before it and of the
\* window after it; blocks before have smaller a-indices, so the sorted list
\* is the in-order list.
RECURSIVE matching_blocks(_, _, _, _, _, _)
matching_blocks(a, b, alo, ahi, blo, bhi) ==
  LET x == find_longest_match(a, b, alo, ahi, blo, bhi)
      i == x[1]
      j == x[2]
      k == x[3]
  IN IF k = 0 THEN <<>>
     ELSE (IF alo < i /\ blo < j
             THEN matching_blocks(a, b, alo, i, blo, j) ELSE <<>>)
          \o <<x>>
          \o (IF i + k < ahi /\ j + k < bhi
                THEN matching_blocks(a, b, i + k, ahi, j + k, bhi) ELSE <<>>)

\* The collapse loop of get_matching_blocks: cur is (i1, j1, k1), acc is
\* non_adjacent.
RECURSIVE collapse(_, _, _)
collapse(blocks, cur, acc) ==
  IF blocks = <<>>
    THEN (IF cur[3] # 0 THEN Append(acc, cur) ELSE acc)
  ELSE LET nxt == Head(blocks)
       IN IF cur[1] + cur[3] = nxt[1] /\ cur[2] + cur[3] = nxt[2]
            THEN collapse(Tail(blocks), <<cur[1], cur[2], cur[3] + nxt[3]>>, acc)
            ELSE collapse(Tail(blocks), nxt,
                          IF cur[3] # 0 THEN Append(acc, cur) ELSE acc)

\* get_matching_blocks() with the first window starting at a[1]: the first
\* element of a is never matched.
get_matching_blocks_skip_first(a, b) ==
  Append(collapse(matching_blocks(a, b, 1, Len(a), 0, Len(b)), <<0, 0, 0>>, <<>>),
         <<Len(a), Len(b), 0>>)

\* get_matching_blocks(): the collapsed blocks and the (la, lb, 0) sentinel.
get_matching_blocks(a, b) ==
  Append(collapse(matching_blocks(a, b, 0, Len(a), 0, Len(b)), <<0, 0, 0>>, <<>>),
         <<Len(a), Len(b), 0>>)

\* The loop of get_opcodes over the matching blocks, from position (i, j).
RECURSIVE opcodes_from(_, _, _, _)
opcodes_from(blocks, i, j, answer) ==
  IF blocks = <<>> THEN answer
  ELSE LET ai == Head(blocks)[1]
           bj == Head(blocks)[2]
           size == Head(blocks)[3]
           tag == IF i < ai /\ j < bj THEN "replace"
                  ELSE IF i < ai THEN "delete"
                  ELSE IF j < bj THEN "insert"
                  ELSE ""
           gap == IF tag # "" THEN Append(answer, <<tag, i, ai, j, bj>>) ELSE answer
           eq == IF size # 0
                   THEN Append(gap, <<"equal", ai, ai + size, bj, bj + size>>)
                   ELSE gap
       IN opcodes_from(Tail(blocks), ai + size, bj + size, eq)

\* get_opcodes() on the matching blocks without their (la, lb, 0) sentinel:
\* what follows the last matching block gets no opcode.
get_opcodes_without_sentinel(blocks) ==
  opcodes_from(SubSeq(blocks, 1, Len(blocks) - 1), 0, 0, <<>>)

\* get_opcodes(), on the matching blocks the matcher has cached.
get_opcodes(blocks) == opcodes_from(blocks, 0, 0, <<>>)

(***************************************************************************)
(* match_sequence                                                          *)
(***************************************************************************)
\* range(block.size + 1): one index past the end of every block.
block_indices_off_by_one(start, size) == [i \in 1..(size + 1) |-> start + i - 1]

\* range(block.size) of one block, offset by start.
block_indices(start, size) == [i \in 1..size |-> start + i - 1]

\* The double loop over get_matching_blocks(): which is 1 for block.a and 2
\* for block.b.
RECURSIVE flatten(_, _)
flatten(blocks, which) ==
  IF blocks = <<>> THEN <<>>
  ELSE block_indices(Head(blocks)[which], Head(blocks)[3])
       \o flatten(Tail(blocks), which)

\* Lines 519-527 with block.a appended to both output lists.
match_outputs_a_twice(blocks) ==
  << flatten(blocks, 1), flatten(blocks, 1), get_opcodes(blocks) >>

\* Lines 519-527 for the matching blocks of the matcher s: the returned
\* tuple (output1, output2, opcodes).
match_outputs(blocks) ==
  << flatten(blocks, 1), flatten(blocks, 2), get_opcodes(blocks) >>

\* match_sequence with convert applied to list1 only.
match_sequence_convert_first(list1, list2, fams) ==
  match_outputs(get_matching_blocks(create_convert(fams, list1), list2))

\* match_sequence(list1, list2, homophones)
match_sequence(list1, list2, fams) ==
  match_outputs(get_matching_blocks(create_convert(fams, list1),
                                    create_convert(fams, list2)))

(***************************************************************************)
(* transcribe/mispronunciation.py                                          *)
(***************************************************************************)
\* The fillers tuple of remove_fillers.
fillers == {"", "uh", "huh", "mm", "yeah", "mhm", "hmm", "hm"}

\* remove_fillers with "uh" missing from the tuple.
remove_fillers_without_uh(word) == word \notin (fillers \ {"uh"})

\* remove_fillers(word): True if word is not a filler.
remove_fillers(word) == word \notin fillers

\* set(range(n))
range_set(n) == 0..(n - 1)

\* set(L) of an index list.
list_set(L) == {L[k] : k \in DOMAIN L}

\* Lines 166-167. The homophones argument is None or HOMOPHONES[language],
\* written as the language.
homophones_or_default(homophones) ==
  IF homophones = "None" THEN "en" ELSE homophones

\* The if/elif chain on the two residues, lines 189-206: the type list of
\* the returned Mispronunciation, printed as Python prints it, or None.
residue_type(tsc_diff, gt_diff) ==
  IF Cardinality(gt_diff) = 0 /\ Cardinality(tsc_diff) = 0 THEN "None"
  ELSE IF Cardinality(gt_diff) > 0 /\ Cardinality(tsc_diff) = 0 THEN "None"
  ELSE IF Cardinality(gt_diff) = 0 /\ Cardinality(tsc_diff) > 0 THEN "[ADDITION]"
  ELSE IF Cardinality(tsc_diff) = Cardinality(gt_diff) THEN "[SUBSTITUTION]"
  ELSE IF Cardinality(tsc_diff) > Cardinality(gt_diff)
    THEN "[ADDITION, SUBSTITUTION]"
  ELSE "None"

\* Line 177, aligned_tsc, aligned_gt = match_sequence(...): the unpacking
\* into two targets raises ValueError unless the result has exactly two
\* parts; lines 179-206 follow it.
unpack_two(unpacked, tsc_idx, gt_idx) ==
  IF Len(unpacked) # 2
    THEN [verdict |-> "ValueError", aligned |-> TRUE]
  ELSE [verdict |-> residue_type(tsc_idx \ list_set(unpacked[1]),
                                 gt_idx \ list_set(unpacked[2])),
        aligned |-> TRUE]

\* Lines 171-206, with the transcript already filtered.
detect_filtered(ground_truth, tsc, fams) ==
  IF Len(ground_truth) = 1 \/ Len(tsc) = 0
    THEN [verdict |-> "None", aligned |-> FALSE]
  ELSE unpack_two(match_sequence(tsc, ground_truth, fams),
                  range_set(Len(tsc)), range_set(Len(ground_truth)))

\* detect_mispronunciation of the transcription lambda; lists gives, for
\* each language, map(list, HOMOPHONES[language]) as create_convert will
\* enumerate it.
detect_mispronunciation(ground_truth, transcript, homophones, lists) ==
  detect_filtered(ground_truth, SelectSeq(transcript, remove_fillers),
                  lists[homophones_or_default(homophones)])

(***************************************************************************)
(* airtable_apply_annotations/mispronunciation.py                          *)
(***************************************************************************)
\* The if/elif chain on the two residues, lines 55-66; the string "DELETE"
\* where no mispronunciation is reported.
residue_type_annotations(tsc_diff, gt_diff) ==
  IF Cardinality(gt_diff) = 0 /\ Cardinality(tsc_diff) = 0 THEN "DELETE"
  ELSE IF Cardinality(gt_diff) > 0 /\ Cardinality(tsc_diff) = 0 THEN "DELETE"
  ELSE IF Cardinality(gt_diff) = 0 /\ Cardinality(tsc_diff) > 0 THEN "ADDITION"
  ELSE IF Cardinality(tsc_diff) = Cardinality(gt_diff) /\ tsc_diff = gt_diff
    THEN "SUBSTITUTION"
  ELSE IF Cardinality(tsc_diff) >= Cardinality(gt_diff)
    THEN "ADDITION_SUBSTITUTION"
  ELSE "DELETE"

\* Line 47, aligned_tsc, aligned_gt, _ = match_sequence(...), the zero-match
\* return of lines 49-50 and lines 52-66.
unpack_three(unpacked, tsc_idx, gt_idx) ==
  IF Len(unpacked) # 3
    THEN [verdict |-> "ValueError", aligned |-> TRUE]
  ELSE IF Len(unpacked[1]) = 0 /\ Len(unpacked[2]) = 0
    THEN [verdict |-> "DELETE", aligned |-> TRUE]
  ELSE [verdict |-> residue_type_annotations(tsc_idx \ list_set(unpacked[1]),
                                             gt_idx \ list_set(unpacked[2])),
        aligned |-> TRUE]

\* Lines 41-66: no filler removal.
detect_unfiltered(ground_truth, transcript, fams) ==
  IF Len(ground_truth) = 1 \/ Len(transcript) = 0
    THEN [verdict |-> "DELETE", aligned |-> FALSE]
  ELSE unpack_three(match_sequence(transcript, ground_truth, fams),
                    range_set(Len(transcript)), range_set(Len(ground_truth)))

\* detect_mispronunciation of the annotation lambda (the default of lines
\* 38-39 is that of the transcription lambda).
detect_mispronunciation_annotations(ground_truth, transcript, homophones, lists) ==
  detect_unfiltered(ground_truth, transcript,
                    lists[homophones_or_default(homophones)])

(***************************************************************************)
(* transcribe/aligner.py                                                   *)
(***************************************************************************)
\* Contents of the items of a Transcribe result: two words of one English
\* family, one capitalised, and a punctuation mark. Transcribe gives a
\* pronunciation item its start_time and end_time, a punctuation item none.
Contents == {"Bow", "beau", ","}
Punctuation == {","}

\* The words of a ground-truth text, which is these words joined by single
\* spaces; no text of the model has a hyphen or surrounding blanks.
GTWords == {"Bow", "beau", ","}

\* str.lower().strip() on the strings above.
lower_strip(w) == IF w = "Bow" THEN "bow" ELSE w

\* The time stamps of Transcribe are strings; float(s) is the number at
\* which s stands in this list.
TimeStrings == <<"0.0", "1.0", "2.0", "3.0", "4.0", "5.0", "6.0", "7.0", "8.0", "9.0">>
float(s) == (CHOOSE k \in DOMAIN TimeStrings : TimeStrings[k] = s) - 1

\* How long each spoken token lasts, tokens starting one time unit apart: 0
\* and 1 keep every token before the start of the next, 3 makes tokens
\* overlap in time.
Durations == {0, 1, 3}

\* results["items"] for the contents c, every pronunciation item lasting dur.
items_of(c, dur) ==
  [k \in 1..Len(c) |->
     IF c[k] \in Punctuation
       THEN [content |-> c[k]]
       ELSE [content |-> c[k],
             start_time |-> TimeStrings[k],
             end_time |-> TimeStrings[k + dur]]]

\* Lines 134-136: the lower-cased content of every item.
transcripts_of(items) == [k \in 1..Len(items) |-> lower_strip(items[k].content)]

\* Line 138, ground_truth.lower().strip().replace("-", " ").split(" "): the
\* empty text splits into the one word "".
split_ground_truth(text) ==
  IF text = <<>> THEN <<"">>
  ELSE [k \in 1..Len(text) |-> lower_strip(text[k])]

\* ceil(n / d) for d > 0.
ceil_div(n, d) == (n + d - 1) \div d

\* Lines 142-144; max_repeats None is written 0 (as falsy as None).
multiplier(max_repeats, n_transcripts, n_ground_truth) ==
  IF max_repeats # 0 THEN max_repeats ELSE ceil_div(n_transcripts, n_ground_truth)

\* Line 145, ground_truth *= multiplier.
RECURSIVE repeat(_, _)
repeat(L, m) == IF m <= 0 THEN <<>> ELSE L \o repeat(L, m - 1)

\* groupby(enumerate(aligned), lambda x: x[0] - x[1]) of line 151 with the
\* seq of line 153: consecutive elements of L with the same key, k the
\* (1-based) place of the next element, cur the group being built.
RECURSIVE groupby(_, _, _, _)
groupby(L, k, cur, acc) ==
  IF k > Len(L) THEN (IF cur = <<>> THEN acc ELSE Append(acc, cur))
  ELSE IF cur = <<>> \/ (k - 1) - L[k] = (k - 2) - L[k - 1]
    THEN groupby(L, k + 1, Append(cur, L[k]), acc)
  ELSE groupby(L, k + 1, <<L[k]>>, Append(acc, cur))

\* " ".join(L)
RECURSIVE join(_)
join(L) ==
  IF L = <<>> THEN ""
  ELSE IF Len(L) = 1 THEN L[1]
  ELSE L[1] \o " " \o join(Tail(L))

\* Lines 182-183 with the first and the last token of the run exchanged.
time_window_last_to_first(items, first, last) ==
  [start |-> float(items[last + 1].start_time),
   end |-> float(items[first + 1].end_time)]

\* Lines 182-183: the start of the first and the end of the last token of
\* the run, as floats.
time_window(items, first, last) ==
  [start |-> float(items[first + 1].start_time),
   end |-> float(items[last + 1].end_time)]

\* " ".join(transcripts[first : last]): the last token of the run left out.
segment_text_without_last(transcripts, first, last) ==
  join(SubSeq(transcripts, first + 1, last))

\* Line 186, " ".join(transcripts[first : last + 1]).
segment_text(transcripts, first, last) ==
  join(SubSeq(transcripts, first + 1, last + 1))

\* Sentence identifiers counted from one.
sentence_id_from_one(sentence_counter) ==
  "sentence_" \o ToString(sentence_counter + 1)

\* Line 170, f"sentence_{sentence_counter}".
sentence_id(sentence_counter) == "sentence_" \o ToString(sentence_counter)

\* init_label_studio_annotation() (lines 16-38) once lines 170-189 have
\* filled it in: the three entries of one segment.
annotation(sentence_counter, window, overlap) ==
  << [from_name |-> "transcription", to_name |-> "audio", type |-> "textarea",
      id |-> sentence_id(sentence_counter),
      value |-> [start |-> window.start, end |-> window.end,
                 text |-> <<overlap>>]],
     [from_name |-> "labels", to_name |-> "audio", type |-> "labels",
      id |-> sentence_id(sentence_counter),
      value |-> [start |-> window.start, end |-> window.end,
                 labels |-> <<"Sentence">>]],
     [from_name |-> "region-ground-truth", to_name |-> "audio", type |-> "textarea",
      id |-> sentence_id(sentence_counter),
      value |-> [start |-> window.start, end |-> window.end,
                 text |-> <<overlap>>]] >>

\* The loop of lines 151-191 over the groups: a group whose first token has
\* no start_time is skipped (159-160); reading end_time of a last token that
\* has none raises KeyError (183).
RECURSIVE segment_loop(_, _, _, _, _)
segment_loop(items, transcripts, groups, sentence_counter, output) ==
  IF groups = <<>> THEN [raised |-> "None", output |-> output]
  ELSE LET first == Head(groups)[1]
           last == Head(groups)[Len(Head(groups))]
       IN IF "start_time" \notin DOMAIN items[first + 1]
            THEN segment_loop(items, transcripts, Tail(groups),
                              sentence_counter, output)
          ELSE IF "end_time" \notin DOMAIN items[last + 1]
            THEN [raised |-> "KeyError", output |-> <<>>]
          ELSE segment_loop(items, transcripts, Tail(groups),
                            sentence_counter + 1,
                            output \o annotation(sentence_counter,
                                                 time_window(items, first, last),
                                                 segment_text(transcripts, first, last)))

\* Lines 151-193 for the matched transcript indices of line 149.
segments_of(items, transcripts, aligned_transcripts) ==
  segment_loop(items, transcripts,
               groupby(aligned_transcripts, 1, <<>>, <<>>), 0, <<>>)

\* Lines 138-149: the matched transcript indices against the repeated
\* ground truth.
aligned_transcripts_of(transcripts, ground_truth, max_repeats, fams) ==
  match_sequence(transcripts,
                 repeat(ground_truth,
                        multiplier(max_repeats, Len(transcripts), Len(ground_truth))),
                 fams)[1]

\* overlapping_segments(results, ground_truth, language, max_repeats). For a
\* language that is not in HOMOPHONES line 148 sets homophones to None, and
\* create_convert(*None) (homophones.py, line 516) raises TypeError.
overlapping_segments(items, ground_truth, language, max_repeats, lists) ==
  IF language \notin DOMAIN HOMOPHONES
    THEN [raised |-> "TypeError", output |-> <<>>]
  ELSE segments_of(items, transcripts_of(items),
                   aligned_transcripts_of(transcripts_of(items),
                                          split_ground_truth(ground_truth),
                                          max_repeats, lists[language]))

(***************************************************************************)
(* The converter on words that differ in case                              *)
(***************************************************************************)
\* The family of the English table with a capitalised member
\* (homophones.py, line 47), and the words converted: two of its members and
\* the lower-cased "i" that the callers of match_sequence produce.
FamiliesOfI == << {"aye", "eye", "I"} >>
CaseWords == {"I", "i", "eye"}

(***************************************************************************)
(* DisfluencyTable._apply_annotation_changes_s3                            *)
(* (src/src/airtable_apply_annotations/disfluency_table.py) and            *)
(* bulk_s3_actions (src/src/airtable_apply_annotations/s3_utils.py)        *)
(***************************************************************************)
\* config.py, lines 19 and 40.
BUCKET == "bookbot-speech"
EXTENSIONS == <<"txt", "srt", "json", "aac", "wav", "m4a">>

\* The labels of the two multi-select columns: the classifiers' verdicts, and
\* the "None" an annotator selects in "Actual Disfluency".
Labels == {"ADDITION", "SUBSTITUTION", "DELETE"}
ActualLabels == Labels \cup {"None"}

\* str.lower on the labels.
lower_label ==
  [ADDITION |-> "addition", SUBSTITUTION |-> "substitution",
   DELETE |-> "delete", None |-> "none"]

\* A multi-select cell: one or two different labels.
LabelLists(S) ==
  {l \in ListsUpTo(S, 2) : Len(l) >= 1 /\ \A x, y \in DOMAIN l : x # y => l[x] # l[y]}

\* The fields of an AirTable row; AirTable leaves an empty cell out.
PredictedFields(job_name, lang, disfluency) ==
  ("Job Name" :> job_name) @@ ("Language" :> lang) @@ ("Disfluency" :> disfluency)
AnnotatedFields(job_name, lang, disfluency, actual) ==
  PredictedFields(job_name, lang, disfluency) @@ ("Actual Disfluency" :> actual)

_get_files_with_extensions(job_name, extensions) ==
  [k \in DOMAIN extensions |-> job_name \o "." \o extensions[k]]

_lowercase_elements(list_) == [k \in DOMAIN list_ |-> lower_label[list_[k]]]

_get_directories(disfluencies, lang) ==
  [k \in DOMAIN disfluencies |-> "mispronunciations/" \o disfluencies[k] \o "/" \o lang]

\* list(set(list1) - set(list2)): the lists that enumerating the difference
\* can give. The assertion of line 83 holds at both calls (2 > 1).
_list_difference(list1, list2) == ListOrders(list_set(list1) \ list_set(list2))

\* One call action(bucket=, file=, source=[, destination=]) of copy_file,
\* move_file or delete_file; each of them catches the ClientError of S3.
s3_call(action, bucket, file, source, destination) ==
  [action |-> action, bucket |-> bucket, file |-> file, source |-> source,
   destination |-> destination]

\* bulk_s3_actions: the calls it makes in order, or the failed assertion of
\* line 115; targets is <<>> for the default None (both are falsy).
bulk_s3_actions(action, bucket, files, sources, targets) ==
  LET n == Len(files)
      calls(dest) ==
        [k \in 1..(Len(sources) * n) |->
           s3_call(action, bucket, files[((k - 1) % n) + 1],
                   sources[((k - 1) \div n) + 1],
                   IF dest THEN targets[((k - 1) \div n) + 1] ELSE "None")]
  IN IF targets # <<>>
       THEN IF Len(sources) # Len(targets)
              THEN [raised |-> "AssertionError", calls |-> <<>>]
            ELSE [raised |-> "None", calls |-> calls(TRUE)]
     ELSE [raised |-> "None", calls |-> calls(FALSE)]

\* _apply_annotation_changes_s3(record) with record["fields"] = fields: the
\* outcomes of lines 86-114, one for every enumeration of a set difference.
_apply_annotation_changes_s3(bucket, extensions, fields) ==
  IF "Actual Disfluency" \notin DOMAIN fields
    THEN {[raised |-> "None", calls |-> <<>>]}
  ELSE
    LET language_ == fields["Language"]
        files == _get_files_with_extensions(fields["Job Name"], extensions)
        disfluency == _lowercase_elements(fields["Disfluency"])
        actual_disfluency == _lowercase_elements(fields["Actual Disfluency"])
        sources == _get_directories(disfluency, language_)
        targets == _get_directories(actual_disfluency, language_)
    IN IF actual_disfluency = <<"none">>
         THEN {bulk_s3_actions("delete_file", bucket, files, sources, <<>>)}
       ELSE IF Len(disfluency) = 1 /\ Len(actual_disfluency) = 1
         THEN {bulk_s3_actions("move_file", bucket, files, sources, targets)}
       ELSE IF Len(disfluency) = 1 /\ Len(actual_disfluency) = 2
         THEN {bulk_s3_actions("copy_file", bucket, files, sources,
                               _get_directories(d, language_)) :
                 d \in _list_difference(actual_disfluency, disfluency)}
       ELSE IF Len(disfluency) = 2 /\ Len(actual_disfluency) = 1
         THEN {bulk_s3_actions("delete_file", bucket, files,
                               _get_directories(d, language_), <<>>) :
                 d \in _list_difference(disfluency, actual_disfluency)}
       ELSE {[raised |-> "None", calls |-> <<>>]}

(***************************************************************************)
(* transcribe_file (src/src/transcribe/transcribe.py)                      *)
(***************************************************************************)
\* The status of a job of AWS Transcribe, and "absent" when the service has
\* no job of the name (get_transcription_job then raises a ClientError).
JobStatuses == {"QUEUED", "IN_PROGRESS", "COMPLETED", "FAILED"}

\* get_job: the response (its TranscriptionJobStatus), None on ClientError.
get_job(status) == IF status = "absent" THEN "None" ELSE status

\* Line 159: the statuses on which the polling loop returns (first, with
\* QUEUED taken for one of them).
job_is_over_or_queued(job_status_) == job_status_ \in {"COMPLETED", "FAILED", "QUEUED"}
job_is_over(job_status_) == job_status_ \in {"COMPLETED", "FAILED"}

\* create_task(file_uri, job): the TranscribeStatus of the tuple it returns.
\* Only a completed job carries a Transcript.TranscriptFileUri; without it
\* line 65 raises KeyError and the except branch returns FAILED. With it the
\* download of the results succeeds or raises.
create_task(job_) ==
  IF job_ = "COMPLETED" THEN {"SUCCESS", "FAILED"} ELSE {"FAILED"}

(***************************************************************************)
(* State: one process that has imported homophones.py and serves calls.   *)
(***************************************************************************)
VARIABLES
  family_lists,  \* of each language, map(list, HOMOPHONES[language]) as this
                 \* process enumerates the sets built at import
  pc,            \* "idle", or "done" when a call has returned or raised
  op,            \* the function called
  ground_truth,  \* arguments of the call
  transcript,
  homophones,
  verdict,       \* what a classifier returned, or the exception it raised
  aligned,       \* whether the call ran match_sequence
  output,        \* what match_sequence or overlapping_segments returned
  results,       \* results["items"] of a call of overlapping_segments
  language,      \* its language argument
  max_repeats,   \* its max_repeats argument (0 for None)
  raised,        \* the exception that the call raised, or "None"
  record,        \* record["fields"] of a call of _apply_annotation_changes_s3
  s3_calls,      \* the S3 actions that the call has made, in order
  job_name,      \* the job_name argument of a call of transcribe_file
  job_status,    \* the status of that job at AWS Transcribe, or "absent"
  job,           \* the last response of get_transcription_job, or "None"
  started,       \* whether the call has started a transcription job
  task           \* the status of the tuple that transcribe_file returned

vars == <<family_lists, pc, op, ground_truth, transcript, homophones,
          verdict, aligned, output, results, language, max_repeats, raised,
          record, s3_calls, job_name, job_status, job, started, task>>

\* The state of the calls on AWS.
aws_vars == <<record, s3_calls, job_name, job_status, job, started, task>>

\* The arguments of overlapping_segments besides the items and the text: a
\* language of the table or one that is not in it; max_repeats absent, or 3
\* as the lambda handler passes it (lambda_function.py, line 619).
Languages == {"en", "id", "xx"}
MaxRepeatsArgs == {0, 3}

\* The values of the homophones argument: None (absent, or a language that
\* is not in the table) or the table entry of a language.
HomophonesArgs == {"None", "en", "id"}

Init ==
  /\ family_lists \in [en : FamilyLists(HOMOPHONES["en"]),
                       id : FamilyLists(HOMOPHONES["id"])]
  /\ pc = "idle"
  /\ op = ""
  /\ ground_truth = <<>>
  /\ transcript = <<>>
  /\ homophones = "None"
  /\ verdict = ""
  /\ aligned = FALSE
  /\ output = <<>>
  /\ results = <<>>
  /\ language = ""
  /\ max_repeats = 0
  /\ raised = "None"
  /\ record = <<>>
  /\ s3_calls = <<>>
  /\ job_name = ""
  /\ job_status = "absent"
  /\ job = "None"
  /\ started = FALSE
  /\ task = ""

\* A call detect_mispronunciation(gt, tsc, h) of the transcription lambda.
DetectMispronunciation ==
  /\ pc = "idle"
  /\ \E h \in HomophonesArgs,
        gt \in ListsUpTo(Words, MaxGT), tsc \in ListsUpTo(Words, MaxTsc) :
       LET r == detect_mispronunciation(gt, tsc, h, family_lists)
       IN /\ ground_truth' = gt
          /\ transcript' = tsc
          /\ homophones' = h
          /\ verdict' = r.verdict
          /\ aligned' = r.aligned
  /\ op' = "transcribe.detect_mispronunciation"
  /\ pc' = "done"
  /\ UNCHANGED <<family_lists, output, results, language, max_repeats, raised>>
  /\ UNCHANGED aws_vars

\* A call detect_mispronunciation(gt, tsc, h) of the annotation lambda.
DetectMispronunciationAnnotations ==
  /\ pc = "idle"
  /\ \E h \in HomophonesArgs,
        gt \in ListsUpTo(Words, MaxGT), tsc \in ListsUpTo(Words, MaxTsc) :
       LET r == detect_mispronunciation_annotations(gt, tsc, h, family_lists)
       IN /\ ground_truth' = gt
          /\ transcript' = tsc
          /\ homophones' = h
          /\ verdict' = r.verdict
          /\ aligned' = r.aligned
  /\ op' = "annotations.detect_mispronunciation"
  /\ pc' = "done"
  /\ UNCHANGED <<family_lists, output, results, language, max_repeats, raised>>
  /\ UNCHANGED aws_vars

\* A call match_sequence(list1, list2, HOMOPHONES[h]); list1 is kept in
\* transcript and list2 in ground_truth, as the classifiers pass them.
MatchSequence ==
  /\ pc = "idle"
  /\ \E h \in HomophonesArgs \ {"None"},
        l1 \in ListsUpTo(Words, MaxTsc), l2 \in ListsUpTo(Words, MaxGT) :
       /\ transcript' = l1
       /\ ground_truth' = l2
       /\ homophones' = h
       /\ output' = match_sequence(l1, l2, family_lists[h])
  /\ op' = "match_sequence"
  /\ pc' = "done"
  /\ aligned' = TRUE
  /\ UNCHANGED <<family_lists, verdict, results, language, max_repeats, raised>>
  /\ UNCHANGED aws_vars

\* A call create_convert(*HOMOPHONES["en"])(L): the families of the process
\* and the family of "I", whose set is enumerated by map(list, families) when
\* the call builds the dict; L is kept in transcript.
CreateConvert ==
  /\ pc = "idle"
  /\ \E lists \in FamilyLists(FamiliesOfI), L \in ListsUpTo(CaseWords, MaxConvert) :
       /\ transcript' = L
       /\ output' = create_convert(family_lists["en"] \o lists, L)
  /\ homophones' = "en"
  /\ op' = "create_convert"
  /\ pc' = "done"
  /\ UNCHANGED <<family_lists, ground_truth, verdict, aligned, results, language,
                 max_repeats, raised>>
  /\ UNCHANGED aws_vars

\* A call overlapping_segments({"items": items}, text, lang, m); the words of
\* the ground-truth text are kept in ground_truth. Line 149 calls
\* match_sequence on every path, nothing returns or raises before it.
OverlappingSegments ==
  /\ pc = "idle"
  /\ \E lang \in Languages, m \in MaxRepeatsArgs, dur \in Durations,
        c \in ListsUpTo(Contents, MaxItems),
        text \in ListsUpTo(GTWords, MaxGTWords) :
       LET r == overlapping_segments(items_of(c, dur), text, lang, m, family_lists)
       IN /\ results' = items_of(c, dur)
          /\ ground_truth' = text
          /\ language' = lang
          /\ max_repeats' = m
          /\ output' = r.output
          /\ raised' = r.raised
  /\ op' = "overlapping_segments"
  /\ pc' = "done"
  /\ aligned' = TRUE
  /\ UNCHANGED <<family_lists, transcript, homophones, verdict>>
  /\ UNCHANGED aws_vars

\* A call _apply_annotation_changes_s3(record) of a DisfluencyTable for a row
\* with one or two predicted labels and an "Actual Disfluency" cell that is
\* empty or holds one or two labels.
JobNames == {"MyJob", "NewJob"}
TableLanguages == {"en", "id"}
Records ==
  {PredictedFields(n, l, d) :
     n \in JobNames, l \in TableLanguages, d \in LabelLists(Labels)}
  \cup {AnnotatedFields(n, l, d[1], d[2]) :
          n \in JobNames, l \in TableLanguages,
          d \in LabelLists(Labels) \X LabelLists(ActualLabels)}

ApplyAnnotationChangesS3 ==
  /\ pc = "idle"
  /\ \E fields \in Records :
       \E r \in _apply_annotation_changes_s3(BUCKET, EXTENSIONS, fields) :
          /\ record' = fields
          /\ s3_calls' = r.calls
          /\ raised' = r.raised
  /\ op' = "_apply_annotation_changes_s3"
  /\ pc' = "done"
  /\ UNCHANGED <<family_lists, ground_truth, transcript, homophones, verdict,
                 aligned, output, results, language, max_repeats,
                 job_name, job_status, job, started, task>>

\* A call transcribe_file(job_name, file_uri) up to the test of line 142:
\* the service has no job of the name or one in any status; get_job asks for
\* it, and an existing job is turned into a task and returned.
TranscribeFile ==
  /\ pc = "idle"
  /\ \E n \in JobNames, status \in JobStatuses \cup {"absent"} :
       /\ job_name' = n
       /\ job_status' = status
       /\ job' = get_job(status)
       /\ IF get_job(status) # "None"
            THEN /\ task' \in create_task(get_job(status))
                 /\ pc' = "done"
          ELSE /\ task' = ""
               /\ pc' = "start"
  /\ op' = "transcribe_file"
  /\ UNCHANGED <<family_lists, ground_truth, transcript, homophones, verdict,
                 aligned, output, results, language, max_repeats, raised,
                 record, s3_calls, started>>

\* Lines 148-153: start_transcription_job; the service queues the job.
StartTranscriptionJob ==
  /\ pc = "start"
  /\ started' = TRUE
  /\ job_status' = "QUEUED"
  /\ pc' = "poll"
  /\ UNCHANGED <<family_lists, op, ground_truth, transcript, homophones, verdict,
                 aligned, output, results, language, max_repeats, raised,
                 record, s3_calls, job_name, job, task>>

\* Lines 156-167, one round of the loop up to the sleep: the job is read and
\* returned as a task when it is over; an IN_PROGRESS job is slept on; any
\* other status goes straight to the next round.
GetTranscriptionJob ==
  /\ pc = "poll"
  /\ job' = job_status
  /\ IF job_is_over(job_status)
       THEN /\ task' \in create_task(job_status)
            /\ pc' = "done"
     ELSE /\ task' = task
          /\ pc' = IF job_status = "IN_PROGRESS" THEN "sleep" ELSE "poll"
  /\ UNCHANGED <<family_lists, op, ground_truth, transcript, homophones, verdict,
                 aligned, output, results, language, max_repeats, raised,
                 record, s3_calls, job_name, job_status, started>>

\* Line 167: time.sleep(20) is over.
Sleep ==
  /\ pc = "sleep"
  /\ pc' = "poll"
  /\ UNCHANGED <<family_lists, op, ground_truth, transcript, homophones, verdict,
                 aligned, output, results, language, max_repeats, raised, aws_vars>>

\* AWS Transcribe works on the job that the call started.
JobProgresses ==
  /\ pc \in {"poll", "sleep"}
  /\ \/ job_status = "QUEUED" /\ job_status' \in {"IN_PROGRESS", "FAILED"}
     \/ job_status = "IN_PROGRESS" /\ job_status' \in {"COMPLETED", "FAILED"}
  /\ UNCHANGED <<family_lists, pc, op, ground_truth, transcript, homophones, verdict,
                 aligned, output, results, language, max_repeats, raised,
                 record, s3_calls, job_name, job, started, task>>

\* The caller has taken the result; the process waits for the next call.
Return ==
  /\ pc = "done"
  /\ pc' = "idle"
  /\ op' = ""
  /\ ground_truth' = <<>>
  /\ transcript' = <<>>
  /\ homophones' = "None"
  /\ verdict' = ""
  /\ aligned' = FALSE
  /\ output' = <<>>
  /\ results' = <<>>
  /\ language' = ""
  /\ max_repeats' = 0
  /\ raised' = "None"
  /\ record' = <<>>
  /\ s3_calls' = <<>>
  /\ job_name' = ""
  /\ job_status' = "absent"
  /\ job' = "None"
  /\ started' = FALSE
  /\ task' = ""
  /\ UNCHANGED family_lists

Next ==
  \/ DetectMispronunciation
  \/ DetectMispronunciationAnnotations
  \/ MatchSequence
  \/ OverlappingSegments
  \/ CreateConvert
  \/ ApplyAnnotationChangesS3
  \/ TranscribeFile
  \/ StartTranscriptionJob
  \/ GetTranscriptionJob
  \/ Sleep
  \/ JobProgresses
  \/ Return

Spec == Init /\ [][Next]_vars

\* The transcription lambda alone.
NextTranscribe ==
  \/ DetectMispronunciation
  \/ Return

SpecTranscribe == Init /\ [][NextTranscribe]_vars

\* The aligner alone.
NextMatch ==
  \/ MatchSequence
  \/ Return

SpecMatch == Init /\ [][NextMatch]_vars

\* The segment aligner alone.
NextSegments ==
  \/ OverlappingSegments
  \/ Return

SpecSegments == Init /\ [][NextSegments]_vars

\* The annotation lambda's S3 changes alone.
NextAnnotations ==
  \/ ApplyAnnotationChangesS3
  \/ Return

SpecAnnotations == Init /\ [][NextAnnotations]_vars

\* transcribe_file alone. The interpreter runs the function on: each of its
\* steps is taken when it stays possible. Nothing is assumed of the service.
NextTranscribeFile ==
  \/ TranscribeFile
  \/ StartTranscriptionJob
  \/ GetTranscriptionJob
  \/ Sleep
  \/ JobProgresses
  \/ Return

SpecTranscribeFile ==
  /\ Init
  /\ [][NextTranscribeFile]_vars
  /\ WF_vars(StartTranscriptionJob)
  /\ WF_vars(GetTranscriptionJob)
  /\ WF_vars(Sleep)

(***************************************************************************)
(* Properties                                                              *)
(***************************************************************************)
\* A call of function f has returned or raised.
Called(f) == pc = "done" /\ op = f

TranscribeDetect == "transcribe.detect_mispronunciation"

\* The transcript once the filler tokens are removed from it.
NotFiller(w) == w \notin fillers
Filtered == SelectSeq(transcript, NotFiller)

\* The families of the call as enumerated, and the alignment of the filtered
\* transcript (sequence A) against the ground truth (sequence B) under them.
families == family_lists[homophones_or_default(homophones)]
Alignment == match_sequence(Filtered, ground_truth, families)
Matches == Len(Alignment[1])
TscResidue == (0..(Len(Filtered) - 1)) \ {Alignment[1][k] : k \in 1..Matches}
GtResidue == (0..(Len(ground_truth) - 1)) \ {Alignment[2][k] : k \in 1..Matches}

\* w1 and w2 are members of one family of the table of the call.
SameFamily(w1, w2) ==
  \E f \in DOMAIN families :
     {w1, w2} \subseteq {families[f][k] : k \in DOMAIN families[f]}

\* C1: for every word list W, detect_mispronunciation(W, W) returns None.
C1_IdenticalListsNone ==
  (Called(TranscribeDetect) /\ transcript = ground_truth) => verdict = "None"

\* C2: detect_mispronunciation returns None without running the alignment
\* whenever the ground truth has exactly one word or every word of the
\* transcript is a filler token, whatever the other argument is.
C2_TooLittleSignal ==
  (Called(TranscribeDetect)
     /\ (Len(ground_truth) = 1 \/ \A k \in DOMAIN transcript : transcript[k] \in fillers))
  => (verdict = "None" /\ ~aligned)

\* C2 witness: a filler-only, non-empty transcript against a ground truth of
\* two words was classified.
C2_Witness ==
  /\ Called(TranscribeDetect)
  /\ Len(ground_truth) = 2
  /\ transcript = <<"uh", "uh">>
  /\ verdict = "None"

\* C3: a transcript of the ground truth's length whose every word is the
\* ground-truth word at its position or a member of the same homophone
\* family gets the verdict None.
C3_HomophoneTransparent ==
  (Called(TranscribeDetect)
     /\ Len(transcript) = Len(ground_truth)
     /\ \A k \in DOMAIN transcript :
          transcript[k] = ground_truth[k] \/ SameFamily(transcript[k], ground_truth[k]))
  => verdict = "None"

\* C4: ground truth of at least two words, non-empty filtered transcript, at
\* least one matched pair, every ground-truth index matched and some
\* transcript index unmatched: the verdict is ADDITION.
C4_Addition ==
  (Called(TranscribeDetect)
     /\ Len(ground_truth) >= 2 /\ Len(Filtered) > 0 /\ Matches > 0
     /\ GtResidue = {} /\ TscResidue # {})
  => verdict = "[ADDITION]"

\* The call passed the early returns of the decision procedure: the ground
\* truth is not a single word, the filtered transcript is not empty and the
\* alignment has a matched pair, so the residues decide the verdict.
ResiduesDecide == Len(ground_truth) # 1 /\ Len(Filtered) > 0 /\ Matches > 0

\* C5: when both residues are non-empty (and decide the verdict) the verdict
\* is SUBSTITUTION if and only if the two residue index sets are identical.
C5_SubstitutionIffSameIndices ==
  (Called(TranscribeDetect) /\ ResiduesDecide /\ GtResidue # {} /\ TscResidue # {})
  => ((verdict = "[SUBSTITUTION]") <=> (TscResidue = GtResidue))

\* C6: when both residues are non-empty (and decide the verdict), their
\* index sets differ and the transcript residue is at least as large as the
\* ground-truth residue, the verdict is ADDITION_SUBSTITUTION.
C6_AdditionSubstitution ==
  (Called(TranscribeDetect) /\ ResiduesDecide
     /\ GtResidue # {} /\ TscResidue # {} /\ TscResidue # GtResidue
     /\ Cardinality(TscResidue) >= Cardinality(GtResidue))
  => verdict = "[ADDITION, SUBSTITUTION]"

\* C7: when the ground-truth residue is strictly larger than the transcript
\* residue the verdict is None.
C7_DeletionDominatedNone ==
  (Called(TranscribeDetect) /\ Cardinality(GtResidue) > Cardinality(TscResidue))
  => verdict = "None"

\* C8: when the alignment of the filtered transcript against the ground
\* truth has no matched pair the verdict is None.
C8_ZeroMatchesNone ==
  (Called(TranscribeDetect) /\ Matches = 0) => verdict = "None"

\* C9: detect_mispronunciation returns one of its four verdicts for every
\* pair of word lists, with or without a homophone table, and never raises.
C9_Total ==
  Called(TranscribeDetect)
  => verdict \in {"None", "[ADDITION]", "[SUBSTITUTION]", "[ADDITION, SUBSTITUTION]"}

\* L is strictly increasing and every element is an index of a list of
\* length n.
StrictlyIncreasingWithin(L, n) ==
  /\ \A k \in DOMAIN L : L[k] \in 0..(n - 1)
  /\ \A k \in 1..(Len(L) - 1) : L[k] < L[k + 1]

\* C10: the two index lists returned by match_sequence have the same
\* length, are strictly increasing and stay within their input lists.
C10_MatchedIndexLists ==
  Called("match_sequence")
  => /\ Len(output[1]) = Len(output[2])
     /\ StrictlyIncreasingWithin(output[1], Len(transcript))
     /\ StrictlyIncreasingWithin(output[2], Len(ground_truth))

\* C10 witness: match_sequence returned two matched pairs that are not
\* adjacent in its first list.
C10_Witness ==
  /\ Called("match_sequence")
  /\ Len(output[1]) = 2
  /\ output[1][2] > output[1][1] + 1


\* The edit script partitions 0..n: which is 2 for the a-range and 4 for the
\* b-range of a block; the first range starts at 0, each range starts where
\* the one before it ends, no range is reversed, the last one ends at n.
RangesPartition(script, which, n) ==
  /\ \A k \in DOMAIN script : script[k][which] <= script[k][which + 1]
  /\ \A k \in 1..(Len(script) - 1) : script[k][which + 1] = script[k + 1][which]
  /\ (IF script = <<>> THEN n = 0
      ELSE script[1][which] = 0 /\ script[Len(script)][which + 1] = n)

\* C11: the edit script returned by match_sequence is a list of blocks
\* (tag, a_start, a_end, b_start, b_end) with tag in {equal, replace, delete,
\* insert}; the a-ranges in order partition [0, len(list1)) and the b-ranges
\* partition [0, len(list2)), without gap or overlap.
C11_EditScriptPartitions ==
  Called("match_sequence")
  => /\ \A k \in DOMAIN output[3] :
           /\ Len(output[3][k]) = 5
           /\ output[3][k][1] \in {"equal", "replace", "delete", "insert"}
     /\ RangesPartition(output[3], 2, Len(transcript))
     /\ RangesPartition(output[3], 4, Len(ground_truth))

\* C11 witness: an edit script of three blocks that ends with a block other
\* than equal was returned.
C11_Witness ==
  /\ Called("match_sequence")
  /\ Len(output[3]) = 3
  /\ output[3][2][1] = "equal"
  /\ output[3][3][1] # "equal"

\* match_sequence(list2, list1, homophones) of the call: the same lists
\* passed in the other order.
Swapped == match_sequence(ground_truth, transcript, family_lists[homophones])

RECURSIVE lcs(_, _, _, _)
lcs(a, b, i, j) ==
  IF i = 0 \/ j = 0 THEN 0
  ELSE IF a[i] = b[j] THEN 1 + lcs(a, b, i - 1, j - 1)
  ELSE LET skip_a == lcs(a, b, i - 1, j)
           skip_b == lcs(a, b, i, j - 1)
       IN IF skip_a >= skip_b THEN skip_a ELSE skip_b

\* The longest common subsequence of the two canonicalized lists of the call.
Longest ==
  lcs(create_convert(family_lists[homophones], transcript),
      create_convert(family_lists[homophones], ground_truth),
      Len(transcript), Len(ground_truth))

C14_Deterministic ==
  Called("match_sequence")
  => \A lists \in FamilyLists(HOMOPHONES[homophones]) :
        match_sequence(transcript, ground_truth, lists) = output

\* The key that the converter of the call gives to word w.
Key(w) == dict_get(build_dict(family_lists[homophones], <<>>), w)

\* The words that the call canonicalized.
Canonicalized == list_set(transcript) \cup list_set(ground_truth)

\* C15: the converter maps every two words of one homophone family to the
\* same key, and a word of no family to itself.
C15_Canonical ==
  Called("match_sequence")
  => /\ \A w1, w2 \in Canonicalized : SameFamily(w1, w2) => Key(w1) = Key(w2)
     /\ \A w \in Canonicalized : ~SameFamily(w, w) => Key(w) = w

\* A call of function f has returned (raised nothing).
Returned(f) == Called(f) /\ raised = "None"

Segments == "overlapping_segments"

\* C16: for a language that is not in the homophone table,
\* overlapping_segments and classify_mispronunciation (which passes None to
\* detect_mispronunciation) complete without error and match words by exact
\* equality only, as under a table without families.
C16_UnknownLanguage ==
  /\ (Called(Segments) /\ language \notin DOMAIN HOMOPHONES) => raised = "None"
  /\ (Called(TranscribeDetect) /\ homophones = "None")
     => /\ verdict # "ValueError"
        /\ Alignment = match_sequence(Filtered, ground_truth, <<>>)

\* The key under which overlapping_segments compares word w: its key in the
\* table of the language, the word itself for a language without table.
SegmentKey(w) ==
  IF language \in DOMAIN HOMOPHONES
    THEN dict_get(build_dict(family_lists[language], <<>>), w)
  ELSE w

\* No word of the transcript matches a word of the ground truth.
NoWordMatches ==
  \A i \in DOMAIN results, j \in DOMAIN split_ground_truth(ground_truth) :
     SegmentKey(transcripts_of(results)[i]) # SegmentKey(split_ground_truth(ground_truth)[j])

\* C17: if no transcript word matches any word of the (repeated) ground
\* truth, overlapping_segments returns the empty list and raises no error.
C17_NoMatchEmpty ==
  (Called(Segments) /\ NoWordMatches) => (raised = "None" /\ output = <<>>)

\* The matched transcript indices of the call (for a language of the table).
AlignedTranscripts ==
  aligned_transcripts_of(transcripts_of(results), split_ground_truth(ground_truth),
                         max_repeats, family_lists[language])

\* f..l is a maximal run of consecutive integers of the set M.
MaximalRun(M, f, l) ==
  /\ f <= l
  /\ (f..l) \subseteq M
  /\ (f - 1) \notin M
  /\ (l + 1) \notin M

\* The maximal runs <<f, l>> of M whose first token has a start time.
TimedRuns(M) ==
  {r \in (0..(Len(results) - 1)) \X (0..(Len(results) - 1)) :
      MaximalRun(M, r[1], r[2]) /\ "start_time" \in DOMAIN results[r[1] + 1]}

\* The run of runs that has n runs before it.
NthRun(runs, n) ==
  CHOOSE r \in runs : Cardinality({q \in runs : q[1] < r[1]}) = n

\* The lower-cased contents of the tokens f..l, joined by spaces.
RunText(f, l) == join([k \in 1..(l - f + 1) |-> lower_strip(results[f + k].content)])

\* Entry e is the transcription entry of run r.
SegmentOfRun(e, r) ==
  /\ e.value.start = float(results[r[1] + 1].start_time)
  /\ e.value.end = float(results[r[2] + 1].end_time)
  /\ e.value.text = <<RunText(r[1], r[2])>>

\* The output has one segment for each of the runs, in their order.
SegmentsAreRuns(runs) ==
  /\ Len(output) = 3 * Cardinality(runs)
  /\ \A n \in 0..(Cardinality(runs) - 1) : SegmentOfRun(output[3 * n + 1], NthRun(runs, n))

\* C18: the matched transcript indices are grouped into maximal runs of
\* consecutive integers; each emitted segment is that of exactly one run (a
\* run whose first token is timed), starts at the start time of the run's
\* first token, ends at the end time of its last token, and its text is the
\* space-joined lower-cased tokens from the first to the last index of the
\* run.
C18_SegmentsAreMaximalRuns ==
  Returned(Segments) => SegmentsAreRuns(TimedRuns(list_set(AlignedTranscripts)))

\* C18 witness: one segment was returned for a run of two tokens, next to a
\* third token that is timed and not matched.
C18_Witness ==
  /\ Returned(Segments)
  /\ Len(output) = 3
  /\ Len(results) = 3
  /\ "start_time" \in DOMAIN results[3]
  /\ output[1].value.text \in {<<"bow beau">>, <<"beau bow">>}
  /\ output[1].value.start = 0
  /\ output[1].value.end = 2

\* C19: the output has three entries for each emitted segment, in the order
\* transcription, labels, region-ground-truth; the three entries of the n-th
\* segment have the identifier sentence_n and one start and end, n counting
\* from zero without gaps, also when runs are skipped.
C19_ThreeEntriesPerSegment ==
  Returned(Segments)
  => /\ Len(output) % 3 = 0
     /\ \A n \in 0..((Len(output) \div 3) - 1) :
           /\ output[3 * n + 1].from_name = "transcription"
           /\ output[3 * n + 2].from_name = "labels"
           /\ output[3 * n + 3].from_name = "region-ground-truth"
           /\ \A e \in 1..3 :
                 /\ output[3 * n + e].id = "sentence_" \o ToString(n)
                 /\ output[3 * n + e].value.start = output[3 * n + 1].value.start
                 /\ output[3 * n + e].value.end = output[3 * n + 1].value.end

\* C19 witness: the first run was skipped, its first token being an untimed
\* match, and a later run was emitted.
C19_Witness ==
  /\ Returned(Segments)
  /\ Len(output) = 3
  /\ "start_time" \notin DOMAIN results[1]
  /\ 0 \in list_set(AlignedTranscripts)

\* The timed tokens of the transcript have start <= end, and each starts
\* after the start and no earlier than the end of every timed token before
\* it.
TimedTokens == {k \in DOMAIN results : "start_time" \in DOMAIN results[k]}
TokensInOrder ==
  /\ \A k \in TimedTokens : float(results[k].start_time) <= float(results[k].end_time)
  /\ \A k, m \in TimedTokens :
        k < m => /\ float(results[k].start_time) < float(results[m].start_time)
                 /\ float(results[k].end_time) <= float(results[m].start_time)

\* The segments of the output, for the runs they were emitted for, neither
\* overlap nor go back in tokens or in time.
SegmentsInOrder(runs) ==
  /\ \A n \in 0..(Cardinality(runs) - 1) :
        output[3 * n + 1].value.start <= output[3 * n + 1].value.end
  /\ \A n \in 0..(Cardinality(runs) - 2) :
        /\ NthRun(runs, n)[2] < NthRun(runs, n + 1)[1]
        /\ output[3 * n + 1].value.end <= output[3 * n + 4].value.start
        /\ output[3 * n + 1].value.start < output[3 * n + 4].value.start

\* C20: for a transcript whose timed tokens are in order as above, the
\* emitted segments are pairwise non-overlapping in index range and in time
\* window, each has start <= end, and their start times are strictly
\* increasing in output order.
C20_SegmentsDoNotOverlap ==
  (Returned(Segments) /\ TokensInOrder)
  => SegmentsInOrder(TimedRuns(list_set(AlignedTranscripts)))

\* C20 witness: two segments were returned for a transcript of three timed
\* tokens that touch each other.
C20_Witness ==
  /\ Returned(Segments)
  /\ TokensInOrder
  /\ Len(output) = 6
  /\ Len(results) = 3
  /\ \A k \in DOMAIN results :
        /\ "start_time" \in DOMAIN results[k]
        /\ float(results[k].end_time) = float(results[k].start_time) + 1

\* C21: overlapping_segments raises no exception for any transcript of timed
\* pronunciation items and untimed punctuation items and any ground-truth
\* text (here for the languages of the table), also when a run of matched
\* indices contains or ends with an untimed punctuation token.
C21_NoException ==
  (Called(Segments) /\ language \in DOMAIN HOMOPHONES) => raised = "None"

\* C22: an empty ground-truth text is rejected before the multiplier is
\* computed: no alignment is run against it (and no division by zero
\* happens).
C22_EmptyGroundTruthRejected ==
  (Called(Segments) /\ ground_truth = <<>>)
  => (~aligned /\ raised # "ZeroDivisionError")

\* The ground truth as line 145 leaves it, and the alignment of line 149.
RepeatedGroundTruth ==
  repeat(split_ground_truth(ground_truth),
         multiplier(max_repeats, Len(results), Len(split_ground_truth(ground_truth))))
SegmentAlignment ==
  match_sequence(transcripts_of(results), RepeatedGroundTruth, family_lists[language])

\* The place of x in the list L.
PositionOf(L, x) == CHOOSE k \in DOMAIN L : L[k] = x

\* The ground-truth words from the one matched to the first token of run r
\* to the one matched to its last token, joined by spaces.
GroundTruthSlice(al, gt, r) ==
  join(SubSeq(gt, al[2][PositionOf(al[1], r[1])] + 1,
                  al[2][PositionOf(al[1], r[2])] + 1))

\* The region-ground-truth entry of every segment has the ground-truth slice
\* of its run as text.
RegionsAreSlices(al, gt, runs) ==
  \A n \in 0..(Cardinality(runs) - 1) :
     output[3 * n + 3].value.text = <<GroundTruthSlice(al, gt, NthRun(runs, n))>>

\* C23: the region-ground-truth entry of each emitted segment carries the
\* slice of ground-truth words that its run was aligned to, in the
\* ground-truth spelling.
C23_RegionGroundTruthSlice ==
  Returned(Segments)
  => RegionsAreSlices(SegmentAlignment, RepeatedGroundTruth,
                      TimedRuns(list_set(AlignedTranscripts)))

\* The pairs of indices that match_sequence returned.
MatchedPairs == {<<output[1][k], output[2][k]>> : k \in DOMAIN output[1]}

\* a[i..i+k-1] = b[j..j+k-1] (0-based) is a common contiguous block.
CommonBlock(a, b, i, j, k) ==
  /\ k >= 1
  /\ i + k <= Len(a)
  /\ j + k <= Len(b)
  /\ \A t \in 1..k : a[i + t] = b[j + t]

\* All common contiguous blocks <<i, j, k>> of a and b.
CommonBlocks(a, b) ==
  {x \in (0..Len(a)) \X (0..Len(b)) \X (1..Len(a)) :
      CommonBlock(a, b, x[1], x[2], x[3])}

\* The blocks of B of maximal length; of a set of blocks the one that starts
\* earliest in the first list and, among those, earliest in the second.
Longests(B) == {x \in B : \A y \in B : y[3] <= x[3]}
Earliest(B) ==
  CHOOSE x \in B : \A y \in B : x[1] < y[1] \/ (x[1] = y[1] /\ x[2] <= y[2])

\* The pairs of indices that block x covers.
PairsOf(x) == {<<x[1] + t, x[2] + t>> : t \in 0..(x[3] - 1)}

\* Among the longest common blocks the earliest is matched.
EarliestLongestMatched(B) ==
  B # {} => PairsOf(Earliest(Longests(B))) \subseteq MatchedPairs

lower(w) == IF w = "I" THEN "i" ELSE w

\* C25: family lookup is case-insensitive: words that differ only in letter
\* case (the table entry "I" and the lower-cased "i") get the same key.
C25_CaseInsensitiveLookup ==
  Called("create_convert")
  => \A k, m \in DOMAIN transcript :
        lower(transcript[k]) = lower(transcript[m]) => output[k] = output[m]

\* The outputs agree with n segments: three entries each, the last of them
\* numbered n - 1.
SegmentCount(n) ==
  /\ Len(output) = 3 * n
  /\ n > 0 => output[3 * n].id = "sentence_" \o ToString(n - 1)

\* C26: a run of matched indices produces a segment if and only if its first
\* token has timing information; a run whose first token is untimed produces
\* no entry and takes no segment number.
C26_SegmentIffFirstTimed ==
  (Called(Segments) /\ language \in DOMAIN HOMOPHONES)
  => SegmentCount(Cardinality(TimedRuns(list_set(AlignedTranscripts))))

\* T with the filler f inserted after its first k words.
InsertFiller(T, k, f) == SubSeq(T, 1, k) \o <<f>> \o SubSeq(T, k + 1, Len(T))

\* The transcripts got from the transcript of the call by inserting a filler.
WithFiller ==
  {InsertFiller(transcript, k, f) : k \in 0..Len(transcript), f \in fillers \cap Words}

\* C27: fillers are removed from the transcript only, so that
\* detect_mispronunciation(G, T) gives the same verdict as
\* detect_mispronunciation(G, T') for T' that is T with filler tokens
\* inserted; for both copies of the classifier.
C27_FillerInvariant ==
  /\ Called(TranscribeDetect)
     => /\ verdict # "ValueError"
        /\ \A T \in WithFiller :
              detect_mispronunciation(ground_truth, T, homophones, family_lists).verdict
                = verdict
  /\ Called("annotations.detect_mispronunciation")
     => \A T \in WithFiller :
           detect_mispronunciation_annotations(ground_truth, T, homophones,
                                               family_lists).verdict = verdict

\* The pairs of indices that the equal blocks of an edit script cover.
EqualPairs(script) ==
  UNION {{<<script[n][2] + t, script[n][4] + t>> :
             t \in 0..(script[n][3] - script[n][2] - 1)} :
           n \in {m \in DOMAIN script : script[m][1] = "equal"}}

\* Every matched pair of indices lies within the two lists, and the words at
\* it have the same key.
PairsSound(a, b) ==
  \A k \in DOMAIN output[1] :
     /\ output[1][k] + 1 \in DOMAIN a
     /\ output[2][k] + 1 \in DOMAIN b
     /\ a[output[1][k] + 1] = b[output[2][k] + 1]

\* C28: the words at every matched pair returned by match_sequence have the
\* same canonical key, and the matched pairs are exactly the positions that
\* the equal blocks of the returned edit script cover.
C28_MatchedPairsSound ==
  Called("match_sequence")
  => /\ Len(output[1]) = Len(output[2])
     /\ PairsSound(create_convert(family_lists[homophones], transcript),
                   create_convert(family_lists[homophones], ground_truth))
     /\ MatchedPairs = EqualPairs(output[3])

\* C28 witness: two matched pairs at different places of the two lists, one
\* of them of two different words of a family.
C28_Witness ==
  /\ Called("match_sequence")
  /\ Len(output[1]) = 2
  /\ output[1][1] # output[2][1]
  /\ \E k \in 1..2 : transcript[output[1][k] + 1] # ground_truth[output[2][k] + 1]

\* The S3 actions of a call as a set, and the actions expected of the
\* docstring's table: `action` of every file of the job from the folder of
\* every label of `from` (to the folder of label `to`, "" for a deletion).
ApplyS3 == "_apply_annotation_changes_s3"
S3Calls == {s3_calls[k] : k \in DOMAIN s3_calls}
FolderOf(label) == "mispronunciations/" \o lower_label[label] \o "/" \o record["Language"]
FilesOf == {record["Job Name"] \o "." \o EXTENSIONS[k] : k \in DOMAIN EXTENSIONS}
Expected(action, from, to) ==
  {[action |-> action, bucket |-> BUCKET, file |-> f, source |-> FolderOf(a),
    destination |-> IF to = "" THEN "None" ELSE FolderOf(to)] :
     f \in FilesOf, a \in from}

\* The verdict of the table for predicted labels P and actual labels A.
TableVerdict(P, A) ==
  IF A = <<"None">> THEN S3Calls = Expected("delete_file", list_set(P), "")
  ELSE IF Len(P) = 1 /\ Len(A) = 1
    THEN S3Calls = Expected("move_file", {P[1]}, A[1])
  ELSE IF Len(P) = 1 /\ Len(A) = 2
    THEN \E b \in list_set(A) \ list_set(P) :
           /\ list_set(A) \ list_set(P) = {b}
           /\ S3Calls = Expected("copy_file", {P[1]}, b)
  ELSE IF Len(P) = 2 /\ Len(A) = 1
    THEN S3Calls = Expected("delete_file", list_set(P) \ list_set(A), "")
  ELSE TRUE

\* C29: a call of _apply_annotation_changes_s3 on a row of one or two
\* predicted and at most two actual labels fails no assertion, does nothing
\* on S3 when "Actual Disfluency" is empty, and otherwise makes the S3 actions
\* of the documented table: delete from every predicted folder for [None],
\* move from A to B, copy from A to the one actual label that was not
\* predicted, delete from the predicted label that was not confirmed.
C29_DocumentedTable ==
  Called(ApplyS3) =>
    /\ raised = "None"
    /\ IF "Actual Disfluency" \notin DOMAIN record THEN s3_calls = <<>>
       ELSE TableVerdict(record["Disfluency"], record["Actual Disfluency"])

\* A call of transcribe_file is in its polling loop.
TranscribeFileOp == "transcribe_file"
Polling == op = TranscribeFileOp /\ pc \in {"poll", "sleep"}
JobOver == job_status \in {"COMPLETED", "FAILED"}

\* A job is started only when the service has none of the name.
StartsOnlyAbsent == (started' /\ ~started) => job_status = "absent"

\* A returned call has a task, and either found the job when it asked first
\* and started none, or started one and last read COMPLETED or FAILED.
ReturnsTaskFor ==
  Called(TranscribeFileOp) =>
    /\ task \in {"SUCCESS", "FAILED"}
    /\ \/ ~started /\ job \in JobStatuses
       \/ started /\ job \in {"COMPLETED", "FAILED"}

\* The polling loop is left only on a job that is COMPLETED or FAILED.
LeavesLoopOnlyOver == (Polling /\ pc' = "done") => (JobOver /\ job' = job_status)

====
